---- MODULE Spec2Model ----
(***************************************************************************)
(* Model of src/app.py: the text normalizer (preprocess), the sentence     *)
(* chunker and TF-IDF index (build_tfidf_chunks), the retriever            *)
(* (get_answer) and the Streamlit script that drives them.                 *)
(*                                                                         *)
(* A Python str is a sequence of one-character strings.  A document is     *)
(* given by the sentence sequence sent_tokenize yields for its extracted   *)
(* text (text extraction and sentence segmentation are library calls).     *)
(* Passage positions are 1-based here (Python: 0-based).                   *)
(***************************************************************************)
EXTENDS Integers, Sequences, FiniteSets, TLC

VARIABLES
    \* --- preprocess applied twice (SpecPre)
    in_txt, in_sw, out1, out2, step,
    \* --- the chunker on a drawn sentence sequence (SpecChunk)
    in_sents, in_size, out_chunks, done,
    \* --- the Streamlit script (Spec)
    pdf,          \* the file uploader holds a file
    text,         \* the sentences of pdf_to_text(pdf)
    status,       \* how the last script run ended: "no_pdf", "ready", "error"
    df, vec, X,   \* the index the last run bound (empty when it bound none)
    chat,         \* st.session_state.chat
    q, ask,       \* the text input and the button, as the last run read them
    ans,          \* the answer the last run appended (<<>>: none)
    top,          \* the passage positions get_answer selected in the last run
    pc,           \* "idle", or "rerun": st.rerun() was called
    cache,        \* st.cache_data's entries for build_tfidf_chunks
    hit,          \* the last run's build_tfidf_chunks call was served by the cache
    stop_words,   \* what stopwords.words("english") yields in this process
    tie_order,    \* the order numpy's argsort leaves equal scores in
    log           \* history: every (text, q, get_answer output) so far

preVars == <<in_txt, in_sw, out1, out2, step>>
chunkVars == <<in_sents, in_size, out_chunks, done>>
appVars == <<pdf, text, status, df, vec, X, chat, q, ask, ans, top, pc, cache,
             hit, stop_words, tie_order, log>>

vars == <<preVars, chunkVars, appVars>>

-----------------------------------------------------------------------------
\* Bounds of the model.
MaxStrLen == 3
MaxSents == 3
MaxChunkSize == 4
MaxAsks == 2
\* The chunk size of the script's build_tfidf_chunks(text) calls: the default
\* 800 of the source, scaled down to the length of the modelled sentences.
chunk_size_default == 3

-----------------------------------------------------------------------------
\* Strings.

Whitespace == {" "}

LowerCase == <<"a","b","c","d","e","f","g","h","i","j","k","l","m",
               "n","o","p","q","r","s","t","u","v","w","x","y","z">>

UpperCase == <<"A","B","C","D","E","F","G","H","I","J","K","L","M",
               "N","O","P","Q","R","S","T","U","V","W","X","Y","Z">>

LowerLetters == {LowerCase[i] : i \in 1..Len(LowerCase)}

\* str.lower(), one character
lower_char(c) ==
    IF \E i \in 1..Len(UpperCase) : UpperCase[i] = c
    THEN LowerCase[CHOOSE i \in 1..Len(UpperCase) : UpperCase[i] = c]
    ELSE c

\* str.lower()
lower(txt) == [i \in 1..Len(txt) |-> lower_char(txt[i])]

\* re.sub(r"[^a-z\s]", " ", txt)
sub_nonalpha(txt) ==
    [i \in 1..Len(txt) |->
        IF txt[i] \in LowerLetters \cup Whitespace THEN txt[i] ELSE " "]

RECURSIVE split_from(_, _, _)
split_from(s, i, cur) ==
    IF i > Len(s)
    THEN (IF cur = <<>> THEN <<>> ELSE <<cur>>)
    ELSE IF s[i] \in Whitespace
         THEN (IF cur = <<>> THEN <<>> ELSE <<cur>>) \o split_from(s, i + 1, <<>>)
         ELSE split_from(s, i + 1, Append(cur, s[i]))

\* str.split(): the maximal runs of non-whitespace characters
split(s) == split_from(s, 1, <<>>)

RECURSIVE join(_, _)
\* sep.join(parts)
join(sep, parts) ==
    IF parts = <<>> THEN <<>>
    ELSE IF Len(parts) = 1 THEN parts[1]
    ELSE parts[1] \o sep \o join(sep, Tail(parts))

RECURSIVE lstrip(_)
lstrip(s) == IF s # <<>> /\ s[1] \in Whitespace THEN lstrip(Tail(s)) ELSE s

RECURSIVE rstrip(_)
rstrip(s) ==
    IF s # <<>> /\ s[Len(s)] \in Whitespace
    THEN rstrip(SubSeq(s, 1, Len(s) - 1))
    ELSE s

\* str.strip()
strip(s) == rstrip(lstrip(s))

\* A plausible slip: the stopword filter runs on the raw whitespace tokens,
\* before the non-letters are replaced.
preprocess_filter_first(txt, sw) ==
    LET kept == SelectSeq(split(lower(txt)), LAMBDA w : w \notin sw)
    IN  join(<<" ">>, split(sub_nonalpha(join(<<" ">>, kept))))

\* preprocess(txt); sw is the stopword set the try/except yields: the
\* English list, or the empty set on LookupError.
preprocess(txt, sw) ==
    LET t1 == lower(txt)
        t2 == sub_nonalpha(t1)
    IN  join(<<" ">>, SelectSeq(split(t2), LAMBDA w : w \notin sw))

-----------------------------------------------------------------------------
\* The chunker: the loop of build_tfidf_chunks.

RECURSIVE chunk_loop_restart_empty(_, _, _, _, _)
\* A plausible slip: the new buffer starts empty instead of with the sentence.
chunk_loop_restart_empty(sents, chunk_size, i, chunks, cur) ==
    IF i > Len(sents)
    THEN Append(chunks, cur)
    ELSE IF Len(cur) + Len(sents[i]) <= chunk_size
         THEN chunk_loop_restart_empty(sents, chunk_size, i + 1, chunks,
                                       cur \o <<" ">> \o sents[i])
         ELSE chunk_loop_restart_empty(sents, chunk_size, i + 1,
                                       Append(chunks, cur), <<>>)

RECURSIVE chunk_loop(_, _, _, _, _)
\* for s in sents: ... ; chunks.append(cur)   (i is the loop position)
chunk_loop(sents, chunk_size, i, chunks, cur) ==
    IF i > Len(sents)
    THEN Append(chunks, cur)
    ELSE IF Len(cur) + Len(sents[i]) <= chunk_size
         THEN chunk_loop(sents, chunk_size, i + 1, chunks,
                         cur \o <<" ">> \o sents[i])
         ELSE chunk_loop(sents, chunk_size, i + 1, Append(chunks, cur), sents[i])

\* chunks, cur = [], "" ; the loop ; the final append
make_chunks(sents, chunk_size) == chunk_loop(sents, chunk_size, 1, <<>>, <<>>)

-----------------------------------------------------------------------------
\* The TF-IDF index: TfidfVectorizer(max_features=3000) and cosine_similarity.
\* A vector is kept as its unnormalised tf*idf weights; the L2 norm the
\* library divides by enters where two scores are compared.

max_features == 3000

\* The default token_pattern (?u)\b\w\w+\b on preprocess output (letters and
\* single spaces only): the words of two or more letters.
tokenize(clean) == SelectSeq(split(clean), LAMBDA w : Len(w) >= 2)

count(t, toks) == Cardinality({i \in 1..Len(toks) : toks[i] = t})

RECURSIVE sum_over(_, _)
sum_over(f, S) ==
    IF S = {} THEN 0
    ELSE LET t == CHOOSE x \in S : TRUE
         IN  f[t] + sum_over(f, S \ {t})

\* smooth idf, ln((1 + n) / (1 + df)) + 1, in tenths, rounded: IdfTable[n][df]
IdfTable ==
    << <<10>>,
       <<14, 10>>,
       <<17, 13, 10>>,
       <<19, 15, 12, 10>>,
       <<21, 17, 14, 12, 10>>,
       <<23, 18, 16, 13, 12, 10>>,
       <<24, 20, 17, 15, 13, 11, 10>> >>

\* max_features: the terms kept, the most frequent first
limit_features(terms, toks) ==
    IF Cardinality(terms) <= max_features THEN terms
    ELSE CHOOSE V \in SUBSET terms :
             /\ Cardinality(V) = max_features
             /\ \A t \in V, u \in terms \ V :
                    sum_over([k \in 1..Len(toks) |-> count(t, toks[k])], 1..Len(toks))
                    >= sum_over([k \in 1..Len(toks) |-> count(u, toks[k])], 1..Len(toks))

\* the idf of every term of the vocabulary over the passages' tokens
idf_of(toks, vocabulary) ==
    [t \in vocabulary |->
        IdfTable[Len(toks)][Cardinality({k \in 1..Len(toks) : count(t, toks[k]) > 0})]]

\* the fitted vectorizer and the passage vectors
tfidf_matrix(toks, vocabulary, idf) ==
    [raised |-> FALSE,
     vec |-> [vocabulary |-> vocabulary, idf |-> idf],
     X |-> [k \in 1..Len(toks) |->
               [t \in vocabulary |-> count(t, toks[k]) * idf[t]]]]

\* ValueError("empty vocabulary; ...") when no passage holds a token
fit_vocabulary(toks, vocabulary) ==
    IF vocabulary = {}
    THEN [raised |-> TRUE]
    ELSE tfidf_matrix(toks, vocabulary, idf_of(toks, vocabulary))

fit_tokens(toks) ==
    fit_vocabulary(toks,
        limit_features(UNION {{toks[k][i] : i \in 1..Len(toks[k])} : k \in 1..Len(toks)},
                       toks))

\* vec.fit_transform(cleans)
fit_transform(cleans) == fit_tokens([k \in 1..Len(cleans) |-> tokenize(cleans[k])])

\* vec.transform([clean]): terms outside the vocabulary are dropped
transform(v, clean) ==
    [t \in v.vocabulary |-> count(t, tokenize(clean)) * v.idf[t]]

dot(u, w) == sum_over([t \in DOMAIN u |-> u[t] * w[t]], DOMAIN u)

\* cosine_similarity(qv, X).flatten(): entry k is dot / (|qv| * |X[k]|), and 0
\* when either vector is zero.  |qv| is common to all entries, so an entry is
\* kept as its dot product and the squared norm of the passage vector.
cosine_similarity(qv, XX) ==
    [k \in 1..Len(XX) |-> [dot |-> dot(qv, XX[k]), n2 |-> dot(XX[k], XX[k])]]

\* s1 < s2 as scores
SimLess(s1, s2) ==
    IF s1.dot = 0 THEN s2.dot > 0
    ELSE IF s2.dot = 0 THEN FALSE
    ELSE s1.dot * s1.dot * s2.n2 < s2.dot * s2.dot * s1.n2

SimEq(s1, s2) == ~SimLess(s1, s2) /\ ~SimLess(s2, s1)

Perms(n) == {p \in [1..n -> 1..n] : \A i, j \in 1..n : i # j => p[i] # p[j]}

\* sims.argsort(): the positions in ascending score order.  numpy's default
\* kind is not stable: tie says how the build orders equal scores.
argsort(sims, tie) ==
    CHOOSE p \in Perms(Len(sims)) :
        \A i, j \in 1..Len(sims) :
            i < j =>
                /\ ~SimLess(sims[p[j]], sims[p[i]])
                /\ SimEq(sims[p[i]], sims[p[j]]) =>
                       IF tie = "ascending" THEN p[i] < p[j] ELSE p[i] > p[j]

\* a[-2:][::-1]
last_two_reversed(a) ==
    LET n == Len(a)
    IN  IF n >= 2 THEN <<a[n], a[n - 1]>> ELSE a

\* " ".join(df.iloc[top]["chunk"].values), with df, vec, X as the call
\* leaves them
select_top(d, v, XX, t) ==
    [out |-> join(<<" ">>, [i \in 1..Len(t) |-> d[t[i]].chunk]),
     top |-> t, df |-> d, vec |-> v, X |-> XX]

\* a vectorizer fitted on one query
fit_query(qtoks) ==
    [vocabulary |-> {qtoks[i] : i \in 1..Len(qtoks)},
     idf |-> [w \in {qtoks[i] : i \in 1..Len(qtoks)} |-> 10]]

\* A plausible slip: after the answer is computed the vectorizer the caller
\* holds is refitted on the query (fit_transform for transform).
get_answer_refit(qq, d, v, XX, sw, tie) ==
    [select_top(d, v, XX,
         last_two_reversed(
             argsort(cosine_similarity(transform(v, preprocess(qq, sw)), XX), tie)))
     EXCEPT !.vec = fit_query(tokenize(preprocess(qq, sw)))]

\* get_answer(q, df, vec, X): the string returned, the positions selected,
\* and df, vec, X as the call leaves them.
get_answer(qq, d, v, XX, sw, tie) ==
    select_top(d, v, XX,
        last_two_reversed(
            argsort(cosine_similarity(transform(v, preprocess(qq, sw)), XX), tie)))

\* the frame with its fitted index, unless the fit raised
index_result(d, r) ==
    IF r.raised
    THEN [raised |-> TRUE]
    ELSE [raised |-> FALSE, df |-> d, vec |-> r.vec, X |-> r.X]

\* vec.fit_transform(df["clean"])
fit_frame(d) == index_result(d, fit_transform([k \in 1..Len(d) |-> d[k].clean]))

\* df = DataFrame(chunks); df["clean"] = df["chunk"].apply(preprocess)
chunk_frame(chunks, sw) ==
    [k \in 1..Len(chunks) |->
        [chunk |-> chunks[k], clean |-> preprocess(chunks[k], sw)]]

\* build_tfidf_chunks(text, chunk_size), uncached
build_tfidf_chunks(sents, chunk_size, sw) ==
    fit_frame(chunk_frame(make_chunks(sents, chunk_size), sw))

\* A plausible slip: the memo is looked up without the text in its key.
cache_get_any_text(c, sents, chunk_size) == {e \in c : e.key[2] = chunk_size}

\* st.cache_data's lookup: the entries stored under (text, chunk_size)
cache_get(c, sents, chunk_size) == {e \in c : e.key = <<sents, chunk_size>>}

\* a computed value is stored under its key, unless the call raised
cache_store(c, sents, chunk_size, r) ==
    [res |-> r,
     cache |-> IF r.raised THEN c
               ELSE c \cup {[key |-> <<sents, chunk_size>>, value |-> r]},
     hit |-> FALSE]

\* @st.cache_data build_tfidf_chunks(text): the value of a hit, else the build
cached_build(c, sents, sw) ==
    IF cache_get(c, sents, chunk_size_default) # {}
    THEN [res |-> (CHOOSE e \in cache_get(c, sents, chunk_size_default) : TRUE).value,
          cache |-> c, hit |-> TRUE]
    ELSE cache_store(c, sents, chunk_size_default,
                     build_tfidf_chunks(sents, chunk_size_default, sw))

-----------------------------------------------------------------------------
\* Input pools of the two function-level specifications.

RECURSIVE SeqsUpTo(_, _)
SeqsUpTo(S, n) ==
    IF n = 0 THEN {<<>>}
    ELSE LET shorter == SeqsUpTo(S, n - 1)
         IN  shorter \cup {Append(s, x) : s \in shorter, x \in S}

CharPool == {"a", "b", "A", "'", " "}
StopPool == {<<"a">>, <<"a", "b">>}

\* Sentences of lengths 1, 2, 3; none holds a space, so every space of a
\* chunk is a separator the chunker inserted.
SentPool == {<<"a">>, <<"b", "b">>, <<"c", "c", "c">>}

-----------------------------------------------------------------------------
\* The script: one run of the module body, and the events that start a run.

\* The apology the script substitutes (one token stands for its text).
Fallback == <<"Sorry, I couldn't find that information in the uploaded report.">>

EmptyVectorizer == [vocabulary |-> {}, idf |-> <<>>]

\* An excerpt of NLTK's English stopword list.
EnglishStopwords == {<<"t", "o">>, <<"a">>, <<"t", "h", "e">>}

S_Ab == <<"A", "b", ".">>
S_ba == <<"b", "a">>
S_to == <<"t", "o">>
S_abba == <<"a", "b", " ", "b", "a">>

\* The uploaded documents: no extractable text; one sentence; three
\* sentences, two of them equal; a sentence over the chunk size followed by
\* a stopword-only sentence.
DocPool == {<<>>, <<S_Ab>>, <<S_ba, S_Ab, S_ba>>, <<S_abba, S_to>>}

\* The text typed: empty, whitespace only, a word of the documents, a word
\* of none of them.
QueryPool == {<<>>, <<" ">>, <<"b", "a">>, <<"z", "z">>}

\* A plausible slip: emptiness tested without strip().
ask_guard_no_strip(a, qq) == a /\ qq # <<>>

\* if ask and q.strip():
ask_guard(a, qq) == a /\ strip(qq) # <<>>

\* A plausible slip: the history is reset on every run.
init_chat_always(c) == <<>>

\* if "chat" not in st.session_state: st.session_state.chat = []
\* (an absent key and an empty list are both <<>> here)
init_chat(c) == c

\* if not ans.strip(): ans = <the apology>
shown_answer(out) == IF strip(out) = <<>> THEN Fallback ELSE out

\* the two appends
append_chat(c, qq, a) == c \o << <<"You", qq>>, <<"Nesty", a>> >>

\* The run from line 281 on: get_answer returned r.
RunAnswer(r, text_, q_) ==
    /\ df' = r.df /\ vec' = r.vec /\ X' = r.X
    /\ chat' = append_chat(init_chat(chat), q_, shown_answer(r.out))
    /\ ans' = shown_answer(r.out)
    /\ top' = r.top
    /\ log' = log \cup {[text |-> text_, q |-> q_, out |-> r.out]}
    /\ pc' = "rerun"

\* The run from line 261 on: build_tfidf_chunks(text) gave b.
RunBuilt(b, text_, q_, ask_) ==
    /\ cache' = b.cache
    /\ hit' = b.hit
    /\ IF b.res.raised
       THEN /\ status' = "error"
            /\ df' = <<>> /\ vec' = EmptyVectorizer /\ X' = <<>>
            /\ q' = <<>> /\ ans' = <<>> /\ top' = <<>> /\ pc' = "idle"
            /\ UNCHANGED <<chat, log>>
       ELSE /\ status' = "ready"
            /\ q' = q_
            /\ IF ask_guard(ask_, q_)
               THEN RunAnswer(get_answer(q_, b.res.df, b.res.vec, b.res.X,
                                         stop_words, tie_order), text_, q_)
               ELSE /\ df' = b.res.df /\ vec' = b.res.vec /\ X' = b.res.X
                    /\ chat' = init_chat(chat)
                    /\ ans' = <<>> /\ top' = <<>> /\ pc' = "idle"
                    /\ UNCHANGED log

\* One run of the script with the widgets reading pdf_/text_, q_ and ask_.
RunScript(pdf_, text_, q_, ask_) ==
    /\ pdf' = pdf_
    /\ text' = text_
    /\ ask' = ask_
    /\ UNCHANGED <<stop_words, tie_order>>
    /\ IF ~pdf_
       THEN /\ status' = "no_pdf"
            /\ df' = <<>> /\ vec' = EmptyVectorizer /\ X' = <<>>
            /\ q' = <<>> /\ ans' = <<>> /\ top' = <<>> /\ pc' = "idle"
            /\ hit' = FALSE
            /\ UNCHANGED <<chat, cache, log>>
       ELSE RunBuilt(cached_build(cache, text_, stop_words), text_, q_, ask_)

\* The variables of a specification that does not use them.
PreIdle == /\ in_txt = <<>> /\ in_sw = {} /\ out1 = <<>> /\ out2 = <<>> /\ step = 0
ChunkIdle == /\ in_sents = <<>> /\ in_size = 1 /\ out_chunks = <<>> /\ done = FALSE
AppIdle ==
    /\ pdf = FALSE /\ text = <<>> /\ status = "no_pdf"
    /\ df = <<>> /\ vec = EmptyVectorizer /\ X = <<>>
    /\ chat = <<>> /\ q = <<>> /\ ask = FALSE /\ ans = <<>> /\ top = <<>>
    /\ pc = "idle" /\ cache = {} /\ hit = FALSE
    /\ stop_words = {} /\ tie_order = "ascending" /\ log = {}

Init ==
    /\ pdf = FALSE /\ text = <<>> /\ status = "no_pdf"
    /\ df = <<>> /\ vec = EmptyVectorizer /\ X = <<>>
    /\ chat = <<>> /\ q = <<>> /\ ask = FALSE /\ ans = <<>> /\ top = <<>>
    /\ pc = "idle" /\ cache = {} /\ hit = FALSE /\ log = {}
    /\ stop_words \in {EnglishStopwords, {}}
    /\ tie_order \in {"ascending", "descending"}
    /\ PreIdle
    /\ ChunkIdle

\* The user puts a document into the uploader.
Upload(d) ==
    /\ pc = "idle"
    /\ RunScript(TRUE, d, IF status = "ready" THEN q ELSE <<>>, FALSE)
    /\ UNCHANGED <<preVars, chunkVars>>

\* The user removes the document.
Remove ==
    /\ pc = "idle"
    /\ pdf
    /\ RunScript(FALSE, <<>>, <<>>, FALSE)
    /\ UNCHANGED <<preVars, chunkVars>>

\* The user types qq and presses "Ask Nesty".
Ask(qq) ==
    /\ pc = "idle"
    /\ status = "ready"
    /\ Len(chat) < 2 * MaxAsks
    /\ RunScript(pdf, text, qq, TRUE)
    /\ UNCHANGED <<preVars, chunkVars>>

\* st.rerun(): the script runs again, the button no longer pressed.
Rerun ==
    /\ pc = "rerun"
    /\ RunScript(pdf, text, q, FALSE)
    /\ UNCHANGED <<preVars, chunkVars>>

Next ==
    \/ \E d \in DocPool : Upload(d)
    \/ Remove
    \/ \E qq \in QueryPool : Ask(qq)
    \/ Rerun

Spec == Init /\ [][Next]_vars

-----------------------------------------------------------------------------
\* SpecPre: preprocess applied once, then to its own output.

InitPre ==
    /\ in_txt \in SeqsUpTo(CharPool, MaxStrLen)
    /\ in_sw \in SUBSET StopPool
    /\ out1 = <<>>
    /\ out2 = <<>>
    /\ step = 0
    /\ ChunkIdle
    /\ AppIdle

ApplyOnce ==
    /\ step = 0
    /\ out1' = preprocess(in_txt, in_sw)
    /\ step' = 1
    /\ UNCHANGED <<in_txt, in_sw, out2, chunkVars, appVars>>

ApplyTwice ==
    /\ step = 1
    /\ out2' = preprocess(out1, in_sw)
    /\ step' = 2
    /\ UNCHANGED <<in_txt, in_sw, out1, chunkVars, appVars>>

NextPre == ApplyOnce \/ ApplyTwice

SpecPre == InitPre /\ [][NextPre]_vars

-----------------------------------------------------------------------------
\* SpecChunk: the chunker on every sentence sequence and chunk size drawn.

InitChunk ==
    /\ in_sents \in SeqsUpTo(SentPool, MaxSents)
    /\ in_size \in 1..MaxChunkSize
    /\ out_chunks = <<>>
    /\ done = FALSE
    /\ PreIdle
    /\ AppIdle

RunChunker ==
    /\ ~done
    /\ out_chunks' = make_chunks(in_sents, in_size)
    /\ done' = TRUE
    /\ UNCHANGED <<in_sents, in_size, preVars, appVars>>

NextChunk == RunChunker

SpecChunk == InitChunk /\ [][NextChunk]_vars

-----------------------------------------------------------------------------
\* C7: preprocess is idempotent for every input string and every fixed
\* stopword set (the empty fallback set included):
\* preprocess(preprocess(s)) = preprocess(s).
C7_PreprocessIdempotent == step = 2 => out2 = out1

\* A stopword was dropped and a non-letter replaced on the first pass.
C7_Witness ==
    /\ step = 2
    /\ in_sw # {}
    /\ out1 # <<>>
    /\ Len(split(sub_nonalpha(lower(in_txt)))) > Len(split(out1))
    /\ \E i \in 1..Len(in_txt) : in_txt[i] = "'"

\* C1: the chunk list partitions the sentence sequence without loss:
\* reading the chunks in list order and ignoring the inserted separating
\* spaces gives every input sentence exactly once, in the original order.
C1_ChunksPartitionSentences ==
    done =>
        /\ join(<<>>, [k \in 1..Len(out_chunks) |-> split(out_chunks[k])]) = in_sents
        /\ SelectSeq(join(<<>>, out_chunks), LAMBDA c : c \notin Whitespace)
               = join(<<>>, in_sents)

\* Several chunks, one of them holding more than one sentence.
C1_Witness ==
    /\ done
    /\ Len(out_chunks) >= 2
    /\ \E k \in 1..Len(out_chunks) : Len(split(out_chunks[k])) >= 2

\* C2: no chunk is longer than chunk_size (separating spaces counted) unless
\* it consists of a single sentence that alone is longer than chunk_size.
C2_ChunkWithinSize ==
    done =>
        \A k \in 1..Len(out_chunks) :
            \/ Len(out_chunks[k]) <= in_size
            \/ \E i \in 1..Len(in_sents) :
                   /\ out_chunks[k] = in_sents[i]
                   /\ Len(in_sents[i]) > in_size

-----------------------------------------------------------------------------
\* Claims about the script, under Spec.

\* the scores of the last query against the index the run bound
LastSims == cosine_similarity(transform(vec, preprocess(q, stop_words)), X)

\* the index a fresh build over the current document gives
Built == build_tfidf_chunks(text, chunk_size_default, stop_words)

\* C3: a non-empty query whose similarity to every passage is exactly zero
\* is answered with the fixed apology, never with passage text.
C3_ZeroSimilarityGivesFallback ==
    (pc = "rerun" /\ \A k \in 1..Len(LastSims) : LastSims[k].dot = 0)
        => ans = Fallback

\* the positions by descending score, equal scores by ascending position
RankedByScoreThenId(sims) ==
    CHOOSE p \in Perms(Len(sims)) :
        \A i, j \in 1..Len(sims) :
            i < j =>
                /\ ~SimLess(sims[p[i]], sims[p[j]])
                /\ SimEq(sims[p[i]], sims[p[j]]) => p[i] < p[j]

FirstTwo(p) == IF Len(p) >= 2 THEN <<p[1], p[2]>> ELSE p

\* C4: get_answer selects the 2 highest-scoring passages and joins their raw
\* text in descending-score order; of two passages with exactly equal scores
\* the one with the smaller id is selected first and placed first.
C4_TiesPreferSmallerId ==
    pc = "rerun" =>
        /\ top = FirstTwo(RankedByScoreThenId(LastSims))
        /\ ans = shown_answer(join(<<" ">>, [i \in 1..Len(top) |-> df[top[i]].chunk]))

\* C5: building the index from empty document text does not raise: the run
\* binds an index of exactly one passage, with empty raw text and the zero
\* vector, and every query against it is answered with the apology.
C5_EmptyDocumentBuilds ==
    (pdf /\ text = <<>>) =>
        /\ status = "ready"
        /\ Len(df) = 1
        /\ df[1].chunk = <<>>
        /\ \A t \in DOMAIN X[1] : X[1][t] = 0
        /\ pc = "rerun" => ans = Fallback

C8_AnswerIsPureRead ==
    /\ [][pc' = "rerun" =>
              /\ df' = df /\ vec' = vec /\ X' = X
              /\ top' = get_answer(q', df, vec, X, stop_words, tie_order).top]_vars
    /\ [](\A a, b \in log : (a.text = b.text /\ a.q = b.q) => a.out = b.out)

\* The same question answered twice against the same document.
C8_Witness ==
    /\ pc = "rerun"
    /\ Len(chat) = 4
    /\ chat[1] = chat[3]
    /\ chat[2] = chat[4]
    /\ Cardinality(log) = 1

ChatPaired ==
    /\ Len(chat) % 2 = 0
    /\ \A k \in 1..Len(chat) :
           /\ k % 2 = 1 => chat[k][1] = "You"
           /\ k % 2 = 0 => chat[k][1] = "Nesty"

ChatStep ==
    \/ chat' = chat
    \/ /\ strip(q') # <<>>
       /\ chat' = chat \o << <<"You", q'>>, <<"Nesty", ans'>> >>
       /\ ans' = shown_answer(get_answer(q', df', vec', X', stop_words, tie_order).out)

\* C9: the chat history is append-only and made of pairs ("You", q) directly
\* followed by ("Nesty", answer to q), in submission order: its length is
\* even, no entry is reordered, altered or removed, and no answer stands
\* without its question before it.
C9_ChatAppendOnlyPairs == []ChatPaired /\ [][ChatStep]_vars

\* Two different questions answered, and the history kept after the
\* document was removed or replaced by one that cannot be indexed.
C9_Witness ==
    /\ Len(chat) = 4
    /\ chat[1][2] # chat[3][2]
    /\ status # "ready"

\* C10: the index a run binds, and every answer computed, is that of the
\* currently uploaded document's text, also when the memoized build is hit.
C10_IndexIsOfCurrentDocument ==
    /\ status = "ready" =>
           /\ pdf
           /\ ~Built.raised
           /\ df = Built.df /\ vec = Built.vec /\ X = Built.X
    /\ pc = "rerun" =>
           ans = shown_answer(get_answer(q, Built.df, Built.vec, Built.X,
                                         stop_words, tie_order).out)

\* An answer served from the memoized index after answers against another
\* document.
C10_Witness ==
    /\ pc = "rerun"
    /\ hit
    /\ Cardinality(cache) >= 2
    /\ Cardinality({l.text : l \in log}) = 2
    /\ \E e \in cache : e.key[1] # text

====
